---- MODULE Spec2Model ----
(***************************************************************************)
(* JSON::Action of Serial Studio (app/src/JSON/Action.cpp): the data model *)
(* of a user-defined action, its transmission payload (txByteArray) and    *)
(* its persistence codec (serialize / read).                               *)
(*                                                                         *)
(* A QString is a sequence of Unicode code points, a QByteArray a sequence *)
(* of bytes 0..255, a QJsonObject a function from its keys to its values.  *)
(* A TimerMode is held as its underlying integer, as the code's            *)
(* static_cast<int> / static_cast<TimerMode> pair holds it.  The values of *)
(* an object have the type their key is read as (a string, a boolean, an   *)
(* integer), so QVariant's toString / toBool / toInt hand them on.         *)
(***************************************************************************)
EXTENDS Integers, Sequences, FiniteSets, TLC

VARIABLES
  action,    \* the Action object: a record of its m_ fields
  lastRead,  \* the last read() call on it: its argument and return value
  out        \* the last result handed out by txByteArray / serialize / a restore

vars == <<action, lastRead, out>>

-----------------------------------------------------------------------------
(* Bounds of the model *)

\* most keys present in an object handed to read()
MaxKeys == 2
\* longest icon / title text in the objects of SpecText
MaxLen == 4

-----------------------------------------------------------------------------
(* Qt value types *)

\* QChar::isSpace: TAB, LF, VT, FF, CR, SPACE, NEL, NBSP
IsSpace(c) == c \in {9, 10, 11, 12, 13, 32, 133, 160}

Reverse(s) == [i \in 1..Len(s) |-> s[Len(s) + 1 - i]]

RECURSIVE StripLeading(_)
StripLeading(s) ==
  IF s = <<>> THEN <<>>
  ELSE IF IsSpace(Head(s)) THEN StripLeading(Tail(s))
  ELSE s

RECURSIVE Collapse(_)
\* s has no leading whitespace: copy words, turn every whitespace run
\* into one space, drop a trailing run
Collapse(s) ==
  IF s = <<>> THEN <<>>
  ELSE IF IsSpace(Head(s))
       THEN LET rest == StripLeading(s)
            IN  IF rest = <<>> THEN <<>> ELSE <<32>> \o Collapse(rest)
       ELSE <<Head(s)>> \o Collapse(Tail(s))

\* QString::simplified()
simplified(s) == Collapse(StripLeading(s))

\* QString::toUtf8() of one code point
Utf8Char(c) ==
  IF c < 128 THEN <<c>>
  ELSE IF c < 2048 THEN <<192 + (c \div 64), 128 + (c % 64)>>
  ELSE <<224 + (c \div 4096), 128 + ((c \div 64) % 64), 128 + (c % 64)>>

RECURSIVE toUtf8(_)
\* QString::toUtf8()
toUtf8(s) == IF s = <<>> THEN <<>> ELSE Utf8Char(Head(s)) \o toUtf8(Tail(s))

-----------------------------------------------------------------------------
(* SerialStudio helpers used by txByteArray *)

\* value of a hexadecimal digit, -1 for any other character
HexDigit(c) ==
  IF c >= 48 /\ c <= 57 THEN c - 48
  ELSE IF c >= 65 /\ c <= 70 THEN c - 55
  ELSE IF c >= 97 /\ c <= 102 THEN c - 87
  ELSE -1

RECURSIVE DropSpaces(_)
DropSpaces(s) ==
  IF s = <<>> THEN <<>>
  ELSE IF IsSpace(Head(s)) THEN DropSpaces(Tail(s))
  ELSE <<Head(s)>> \o DropSpaces(Tail(s))

RECURSIVE HexPairs(_)
HexPairs(s) ==
  IF Len(s) < 2 THEN <<>>
  ELSE LET hi == HexDigit(s[1])
           lo == HexDigit(s[2])
           rest == HexPairs(SubSeq(s, 3, Len(s)))
       IN  IF hi >= 0 /\ lo >= 0 THEN <<16 * hi + lo>> \o rest ELSE rest

\* SerialStudio::hexToBytes: hexadecimal byte pairs, whitespace ignored,
\* case-insensitive, a malformed pair dropped
hexToBytes(s) == HexPairs(DropSpaces(s))

RECURSIVE resolveEscapeSequences(_)
\* SerialStudio::resolveEscapeSequences: \n, \r, \t and \\ become the
\* character they name; any other text is kept
resolveEscapeSequences(s) ==
  IF s = <<>> THEN <<>>
  ELSE IF Head(s) = 92 /\ Len(s) >= 2 /\ s[2] \in {110, 114, 116, 92}
       THEN LET c == CASE s[2] = 110 -> 10
                       [] s[2] = 114 -> 13
                       [] s[2] = 116 -> 9
                       [] OTHER      -> 92
            IN  <<c>> \o resolveEscapeSequences(SubSeq(s, 3, Len(s)))
       ELSE <<Head(s)>> \o resolveEscapeSequences(Tail(s))

-----------------------------------------------------------------------------
(* JSON::Action *)

\* TimerMode, by underlying integer
Off == 0
AutoStart == 1
StartOnTrigger == 2
ToggleOnTrigger == 3
TimerModes == {Off, AutoStart, StartOnTrigger, ToggleOnTrigger}

\* "Play Property"
PlayProperty == <<80, 108, 97, 121, 32, 80, 114, 111, 112, 101, 114, 116, 121>>

\* the keys serialize() writes and read() looks up
PersistedKeys ==
  {"icon", "txData", "eol", "binary", "title", "timerIntervalMs", "timerMode",
   "autoExecuteOnConnect"}

\* QJsonObject(): the object without keys
EmptyObject == <<>>

\* QJsonObject::isEmpty
isEmpty(object) == DOMAIN object = {}

\* QJsonObject::insert
insert(object, key, value) ==
  [k \in DOMAIN object \cup {key} |-> IF k = key THEN value ELSE object[k]]

SAFE_READ(object, key, defaultValue) ==
  IF key \in DOMAIN object THEN object[key] ELSE defaultValue

\* JSON::Action::Action(actionId)
Action(actionId) ==
  [ m_actionId             |-> actionId,
    m_binaryData           |-> FALSE,
    m_icon                 |-> PlayProperty,
    m_title                |-> <<>>,
    m_txData               |-> <<>>,
    m_eolSequence          |-> <<>>,
    m_timerIntervalMs      |-> 100,
    m_timerMode            |-> Off,
    m_autoExecuteOnConnect |-> FALSE ]

\* txByteArray with the end of line appended in text mode only
txByteArrayEolTextOnly(self) ==
  IF self.m_binaryData
  THEN hexToBytes(self.m_txData)
  ELSE toUtf8(resolveEscapeSequences(self.m_txData))
         \o toUtf8(resolveEscapeSequences(self.m_eolSequence))

\* JSON::Action::txByteArray() const
txByteArray(self) ==
  LET bin == IF self.m_binaryData
             THEN hexToBytes(self.m_txData)
             ELSE toUtf8(resolveEscapeSequences(self.m_txData))
  IN  IF self.m_eolSequence # <<>>
      THEN bin \o toUtf8(resolveEscapeSequences(self.m_eolSequence))
      ELSE bin

\* serialize with the end of line under the key "eolSequence"
serializeEolKey(self) ==
  [k \in (PersistedKeys \ {"eol"}) \cup {"eolSequence"} |->
     CASE k = "icon"                 -> self.m_icon
       [] k = "txData"               -> self.m_txData
       [] k = "eolSequence"          -> self.m_eolSequence
       [] k = "binary"               -> self.m_binaryData
       [] k = "title"                -> simplified(self.m_title)
       [] k = "timerIntervalMs"      -> self.m_timerIntervalMs
       [] k = "timerMode"            -> self.m_timerMode
       [] OTHER                      -> self.m_autoExecuteOnConnect]

\* serialize with the actionId written too
serializeWithActionId(self) ==
  [k \in PersistedKeys \cup {"actionId"} |->
     CASE k = "icon"                 -> self.m_icon
       [] k = "txData"               -> self.m_txData
       [] k = "eol"                  -> self.m_eolSequence
       [] k = "binary"               -> self.m_binaryData
       [] k = "title"                -> simplified(self.m_title)
       [] k = "timerIntervalMs"      -> self.m_timerIntervalMs
       [] k = "timerMode"            -> self.m_timerMode
       [] k = "actionId"             -> self.m_actionId
       [] OTHER                      -> self.m_autoExecuteOnConnect]

\* JSON::Action::serialize() const
serialize(self) ==
  LET o1 == insert(EmptyObject, "icon", self.m_icon)
      o2 == insert(o1, "txData", self.m_txData)
      o3 == insert(o2, "eol", self.m_eolSequence)
      o4 == insert(o3, "binary", self.m_binaryData)
      o5 == insert(o4, "title", simplified(self.m_title))
      o6 == insert(o5, "timerIntervalMs", self.m_timerIntervalMs)
      o7 == insert(o6, "timerMode", self.m_timerMode)
  IN  insert(o7, "autoExecuteOnConnect", self.m_autoExecuteOnConnect)

\* QString::trimmed(): the edges stripped, the inside kept
trimmed(s) == Reverse(StripLeading(Reverse(StripLeading(s))))

\* the fields read() assigns, with the defaults dflt and the text clean-up trim(_)
Hydrated(self, object, dflt, trim(_)) ==
  [ self EXCEPT
      !.m_eolSequence          = SAFE_READ(object, "eol", dflt.m_eolSequence),
      !.m_txData               = SAFE_READ(object, "txData", dflt.m_txData),
      !.m_binaryData           = SAFE_READ(object, "binary", dflt.m_binaryData),
      !.m_timerIntervalMs      = SAFE_READ(object, "timerIntervalMs", dflt.m_timerIntervalMs),
      !.m_icon                 = trim(SAFE_READ(object, "icon", dflt.m_icon)),
      !.m_title                = trim(SAFE_READ(object, "title", dflt.m_title)),
      !.m_autoExecuteOnConnect = SAFE_READ(object, "autoExecuteOnConnect", dflt.m_autoExecuteOnConnect),
      !.m_timerMode            = SAFE_READ(object, "timerMode", dflt.m_timerMode) ]

\* the defaults of read()
ReadDefaults == [Action(0) EXCEPT !.m_icon = <<>>]

\* read that leaves a field alone when its key is absent
readKeepsAbsent(self, object) ==
  IF ~isEmpty(object)
  THEN [self |-> Hydrated(self, object, self, simplified), ret |-> TRUE]
  ELSE [self |-> self, ret |-> FALSE]

\* read that resets the fields when the object is empty
readEmptyResets(self, object) ==
  [self |-> Hydrated(self, object, ReadDefaults, simplified), ret |-> ~isEmpty(object)]

\* read that takes the actionId from the object when it holds one
readTakesActionId(self, object) ==
  IF ~isEmpty(object)
  THEN [self |-> [Hydrated(self, object, ReadDefaults, simplified) EXCEPT
                    !.m_actionId = SAFE_READ(object, "actionId", self.m_actionId)],
        ret |-> TRUE]
  ELSE [self |-> self, ret |-> FALSE]

\* read with trimmed() in place of simplified()
readTrimmed(self, object) ==
  IF ~isEmpty(object)
  THEN [self |-> Hydrated(self, object, ReadDefaults, trimmed), ret |-> TRUE]
  ELSE [self |-> self, ret |-> FALSE]

\* JSON::Action::read(object): the object after the call and the value returned
read(self, object) ==
  IF ~isEmpty(object)
  THEN [ self |->
           [ self EXCEPT
               !.m_eolSequence          = SAFE_READ(object, "eol", <<>>),
               !.m_txData               = SAFE_READ(object, "txData", <<>>),
               !.m_binaryData           = SAFE_READ(object, "binary", FALSE),
               !.m_timerIntervalMs      = SAFE_READ(object, "timerIntervalMs", 100),
               !.m_icon                 = simplified(SAFE_READ(object, "icon", <<>>)),
               !.m_title                = simplified(SAFE_READ(object, "title", <<>>)),
               !.m_autoExecuteOnConnect = SAFE_READ(object, "autoExecuteOnConnect", FALSE),
               !.m_timerMode            = SAFE_READ(object, "timerMode", Off) ],
         ret |-> TRUE ]
  ELSE [ self |-> self, ret |-> FALSE ]

-----------------------------------------------------------------------------
(* The objects handed to read() *)

\* constructor arguments
ActionIds == {0, 3}

\* " i  c "
IconSamples == {<<32, 105, 32, 32, 99, 32>>}
\* TAB "t" SPACE TAB "l" LF, "t"
TitleSamples == {<<9, 116, 32, 9, 108, 10>>, <<116>>}
\* "41 42"
TxSamples == {<<52, 49, 32, 52, 50>>}
\* "\r\n" (two escapes)
EolSamples == {<<92, 114, 92, 110>>}
\* the four modes but Off, and an integer that names no mode
ModeSamples == {AutoStart, StartOnTrigger, ToggleOnTrigger, 7}

\* the values a key may hold in an input object
Values(key) ==
  CASE key = "icon"                 -> IconSamples
    [] key = "title"                -> TitleSamples
    [] key = "txData"               -> TxSamples
    [] key = "eol"                  -> EolSamples
    [] key = "binary"               -> BOOLEAN
    [] key = "timerIntervalMs"      -> {0, 250}
    [] key = "timerMode"            -> ModeSamples
    [] key = "autoExecuteOnConnect" -> BOOLEAN
    [] OTHER                        -> {7}

\* "actionId" is a key read() does not look up
InputKeys == PersistedKeys \cup {"actionId"}

RECURSIVE ObjectsOver(_)
\* every object whose key set is K
ObjectsOver(K) ==
  IF K = {} THEN {EmptyObject}
  ELSE LET k == CHOOSE x \in K : TRUE
       IN  {insert(o, k, v) : o \in ObjectsOver(K \ {k}), v \in Values(k)}

InputObjects ==
  UNION {ObjectsOver(K) : K \in {S \in SUBSET InputKeys : Cardinality(S) <= MaxKeys}}

-----------------------------------------------------------------------------
(* State machine: one Action, operated by its single owner *)

NoRead == [called |-> FALSE, object |-> EmptyObject, ret |-> FALSE]
NoOut == [op |-> "none", val |-> <<>>]

Init ==
  /\ \E id \in ActionIds : action = Action(id)
  /\ lastRead = NoRead
  /\ out = NoOut

\* action.read(object); a successful read makes the result held in out stale
Read(object) ==
  \E r \in {read(action, object)} :
    /\ action' = r.self
    /\ lastRead' = [called |-> TRUE, object |-> object, ret |-> r.ret]
    /\ out' = IF r.ret THEN NoOut ELSE out

\* action.read(action.serialize())
ReadBack == Read(serialize(action))

\* txByteArray that clears txData once the payload is built
TxByteArrayConsumes ==
  /\ out' = [op |-> "txByteArray", val |-> txByteArray(action)]
  /\ action' = [action EXCEPT !.m_txData = <<>>]
  /\ UNCHANGED lastRead

\* action.txByteArray()
TxByteArray ==
  /\ out' = [op |-> "txByteArray", val |-> txByteArray(action)]
  /\ UNCHANGED <<action, lastRead>>

\* action.serialize()
Serialize ==
  /\ out' = [op |-> "serialize", val |-> serialize(action)]
  /\ UNCHANGED <<action, lastRead>>

\* Action fresh(action.actionId()); fresh.read(action.serialize())
Restore ==
  /\ out' = [op |-> "restore", val |-> read(Action(action.m_actionId), serialize(action))]
  /\ UNCHANGED <<action, lastRead>>

Next ==
  \/ \E object \in InputObjects : Read(object)
  \/ ReadBack
  \/ TxByteArray
  \/ Serialize
  \/ Restore

Spec == Init /\ [][Next]_vars

-----------------------------------------------------------------------------
(* The same machine over every icon / title text of at most MaxLen characters *)

\* TAB, SPACE, "a"
TextAlphabet == {9, 32, 97}

Texts == UNION {[1..n -> TextAlphabet] : n \in 0..MaxLen}

\* a title, and as icon the same text backwards
TextObjects ==
  {insert(insert(EmptyObject, "title", s), "icon", Reverse(s)) : s \in Texts}

NextText ==
  \/ \E object \in TextObjects \cup {EmptyObject} : Read(object)
  \/ ReadBack
  \/ TxByteArray
  \/ Serialize
  \/ Restore

SpecText == Init /\ [][NextText]_vars

-----------------------------------------------------------------------------
(* The same machine over the payload fields *)

\* "41 42", "4G41" (a malformed pair first), "A\nB", "\\t" (backslash
\* escaped, then t), e-acute
PayloadTxSamples ==
  {<<52, 49, 32, 52, 50>>, <<52, 71, 52, 49>>, <<65, 92, 110, 66>>,
   <<92, 92, 116>>, <<233>>}
\* "\r\n", "0a", ""
PayloadEolSamples == {<<92, 114, 92, 110>>, <<48, 97>>, <<>>}

PayloadValues(key) ==
  CASE key = "txData" -> PayloadTxSamples
    [] key = "eol"    -> PayloadEolSamples
    [] OTHER          -> BOOLEAN

RECURSIVE PayloadObjectsOver(_)
PayloadObjectsOver(K) ==
  IF K = {} THEN {EmptyObject}
  ELSE LET k == CHOOSE x \in K : TRUE
       IN  {insert(o, k, v) : o \in PayloadObjectsOver(K \ {k}), v \in PayloadValues(k)}

PayloadObjects ==
  UNION {PayloadObjectsOver(K) : K \in SUBSET {"binary", "txData", "eol"}}

NextPayload ==
  \/ \E object \in PayloadObjects : Read(object)
  \/ ReadBack
  \/ TxByteArray
  \/ Serialize
  \/ Restore

SpecPayload == Init /\ [][NextPayload]_vars

-----------------------------------------------------------------------------
(* Properties *)

\* the eight persisted fields of an Action, actionId left out
Persisted(self) ==
  <<self.m_icon, self.m_title, self.m_txData, self.m_eolSequence,
    self.m_binaryData, self.m_timerIntervalMs, self.m_timerMode,
    self.m_autoExecuteOnConnect>>

\* no leading or trailing whitespace, no two whitespace characters in a row,
\* and no whitespace character but the space
IsNormalised(s) ==
  /\ s # <<>> => ~IsSpace(s[1]) /\ ~IsSpace(s[Len(s)])
  /\ \A i \in 1..Len(s) : IsSpace(s[i]) => s[i] = 32
  /\ \A i \in 1..(Len(s) - 1) : ~(IsSpace(s[i]) /\ IsSpace(s[i + 1]))

\* the value under key, or dflt when the object has no such key
ValueOr(object, key, dflt) == IF key \in DOMAIN object THEN object[key] ELSE dflt

\* C1: a fresh Action with the same actionId that reads serialize() of the
\* Action returns true and holds the Action's eight persisted fields.
C1_RoundTrip ==
  out.op = "restore" =>
    /\ out.val.ret = TRUE
    /\ out.val.self.m_actionId = action.m_actionId
    /\ Persisted(out.val.self) = Persisted(action)

\* C1 witness: a restore of an Action whose title and timer mode are not the
\* defaults.
C1_Witness ==
  /\ out.op = "restore"
  /\ action.m_title # <<>>
  /\ action.m_timerMode # Off

\* C2 as stated: read of a non-empty object returns true and sets every
\* persisted field to the object's value when the key is present, to the
\* default otherwise.
C2_Original ==
  (lastRead.called /\ ~isEmpty(lastRead.object)) =>
    /\ lastRead.ret = TRUE
    /\ Persisted(action) =
         <<ValueOr(lastRead.object, "icon", <<>>),
           ValueOr(lastRead.object, "title", <<>>),
           ValueOr(lastRead.object, "txData", <<>>),
           ValueOr(lastRead.object, "eol", <<>>),
           ValueOr(lastRead.object, "binary", FALSE),
           ValueOr(lastRead.object, "timerIntervalMs", 100),
           ValueOr(lastRead.object, "timerMode", Off),
           ValueOr(lastRead.object, "autoExecuteOnConnect", FALSE)>>

\* C2 amended: read of a non-empty object returns true and sets txData,
\* eolSequence, binaryData, timerIntervalMs, timerMode and
\* autoExecuteOnConnect to the object's value when the key is present, icon
\* and title to the whitespace-normalised form of the object's value when the
\* key is present, and each field to its default when its key is absent,
\* whatever the fields held before.
C2_ReadFills ==
  (lastRead.called /\ ~isEmpty(lastRead.object)) =>
    /\ lastRead.ret = TRUE
    /\ IsNormalised(action.m_icon)
    /\ IsNormalised(action.m_title)
    /\ Persisted(action) =
         <<simplified(ValueOr(lastRead.object, "icon", <<>>)),
           simplified(ValueOr(lastRead.object, "title", <<>>)),
           ValueOr(lastRead.object, "txData", <<>>),
           ValueOr(lastRead.object, "eol", <<>>),
           ValueOr(lastRead.object, "binary", FALSE),
           ValueOr(lastRead.object, "timerIntervalMs", 100),
           ValueOr(lastRead.object, "timerMode", Off),
           ValueOr(lastRead.object, "autoExecuteOnConnect", FALSE)>>

\* C2 witness: a read of an object with none of the eight keys has put every
\* field at its default.
C2_Witness ==
  /\ lastRead.called
  /\ DOMAIN lastRead.object = {"actionId"}
  /\ Persisted(action) = <<<<>>, <<>>, <<>>, <<>>, FALSE, 100, Off, FALSE>>

\* C3: read of an object with zero keys returns false and leaves every
\* field of the Action as it was.
C3_EmptyReadNoOp ==
  [][(lastRead'.called /\ isEmpty(lastRead'.object)) =>
       (lastRead'.ret = FALSE /\ action' = action)]_vars

\* C3 witness: a failed read on an Action that an earlier read had filled.
C3_Witness ==
  /\ lastRead.called
  /\ isEmpty(lastRead.object)
  /\ lastRead.ret = FALSE
  /\ action.m_title # <<>>

\* C4: no call changes actionId: it stays the value given to the
\* constructor.
C4_ActionIdImmutable ==
  [][action'.m_actionId = action.m_actionId /\ action'.m_actionId \in ActionIds]_vars

\* C4 witness: a successful read of an object that holds an "actionId" key.
C4_Witness ==
  /\ lastRead.ret = TRUE
  /\ "actionId" \in DOMAIN lastRead.object
  /\ lastRead.object["actionId"] # action.m_actionId

\* C5: serialize() returns an object with exactly the eight persisted keys
\* (so no actionId key, and never empty), timerMode as the integer of the
\* mode, title in whitespace-normalised form.
C5_SerializeKeys ==
  out.op = "serialize" =>
    /\ DOMAIN out.val = PersistedKeys
    /\ "actionId" \notin DOMAIN out.val
    /\ ~isEmpty(out.val)
    /\ out.val["timerMode"] \in Int
    /\ out.val["timerMode"] = action.m_timerMode
    /\ IsNormalised(out.val["title"])
    /\ out.val["title"] = simplified(action.m_title)

\* C5 witness: a serialize() of an Action with a title and a timer mode.
C5_Witness ==
  /\ out.op = "serialize"
  /\ action.m_title # <<>>
  /\ action.m_timerMode = ToggleOnTrigger

\* C7: timerMode is always one of the four defined values.
C7_TimerModeDefined == action.m_timerMode \in TimerModes

\* C8: right after construction the four strings are empty, binaryData is
\* false, timerIntervalMs 100, timerMode Off, autoExecuteOnConnect false.
C8_ConstructedDefaults ==
  ~lastRead.called =>
    Persisted(action) = <<<<>>, <<>>, <<>>, <<>>, FALSE, 100, Off, FALSE>>

\* C6: txByteArray() returns body then suffix: body is hexToBytes(txData)
\* when binaryData is set and the UTF-8 bytes of the escape-resolved txData
\* when not; suffix is the UTF-8 bytes of the escape-resolved eolSequence when
\* that is non-empty, nothing otherwise, in both modes.
C6_Payload ==
  out.op = "txByteArray" =>
    \E body \in {IF action.m_binaryData
                 THEN hexToBytes(action.m_txData)
                 ELSE toUtf8(resolveEscapeSequences(action.m_txData))} :
      \E suffix \in {IF Len(action.m_eolSequence) > 0
                     THEN toUtf8(resolveEscapeSequences(action.m_eolSequence))
                     ELSE <<>>} :
        /\ Len(out.val) = Len(body) + Len(suffix)
        /\ SubSeq(out.val, 1, Len(body)) = body
        /\ SubSeq(out.val, Len(body) + 1, Len(out.val)) = suffix

\* C6 witness: the binary payload "41 42" with end of line "\r\n" came out
\* as 0x41 0x42 0x0D 0x0A.
C6_Witness ==
  /\ out.op = "txByteArray"
  /\ action.m_binaryData
  /\ action.m_txData = <<52, 49, 32, 52, 50>>
  /\ action.m_eolSequence = <<92, 114, 92, 110>>
  /\ out.val = <<65, 66, 13, 10>>

\* C9: after a successful read title and icon are whitespace-normalised,
\* serialize() gives them back as stored, and a read of the Action's own
\* serialize() leaves both as they were.
C9_TrimStable ==
  [][lastRead'.ret =>
       /\ IsNormalised(action'.m_title)
       /\ IsNormalised(action'.m_icon)
       /\ out'.op = "serialize" =>
            /\ out'.val["title"] = action'.m_title
            /\ out'.val["icon"] = action'.m_icon
       /\ (lastRead.ret /\ lastRead'.object = serialize(action)) =>
            /\ action'.m_title = action.m_title
            /\ action'.m_icon = action.m_icon]_vars

\* C9 witness: the Action read its own serialize() and holds the title
\* "a a", which a read collapsed from a longer text.
C9_Witness ==
  /\ lastRead.ret
  /\ DOMAIN lastRead.object = PersistedKeys
  /\ action.m_title = <<97, 32, 97>>
  /\ action.m_icon = <<97, 32, 97>>

\* C10: txByteArray() and serialize() change no field, and a call returns
\* what the last call of the same operation returned when no successful read
\* came in between, failed reads or not.
C10_ReadOnly ==
  [][/\ out'.op \in {"txByteArray", "serialize"} => action' = action
     /\ (out.op = out'.op /\ out.op \in {"txByteArray", "serialize"}) =>
          out'.val = out.val
     /\ out'.op = "txByteArray" => out'.val = txByteArray(action')
     /\ out'.op = "serialize" => out'.val = serialize(action')]_vars

\* C10 witness: a payload built from a filled Action is still the last
\* result after a failed read.
C10_Witness ==
  /\ out.op = "txByteArray"
  /\ out.val # <<>>
  /\ lastRead.called
  /\ lastRead.ret = FALSE

====
